---- MODULE Spec2Model ----
(***************************************************************************)
(* Model of the consensus core of distributed-sync-system:                 *)
(*   src/src/nodes/base_node.py        BaseNode                            *)
(*   src/src/consensus/raft.py         RaftNode                            *)
(*   src/src/communication/failure_detector.py  FailureDetector            *)
(*                                                                         *)
(* Node identities are the integers 1..NumNodes; None (Python's None) is   *)
(* 0.  The nodes' clock counts units of 50 ms, the failure detector's      *)
(* clock units of 250 ms.                                                  *)
(***************************************************************************)
EXTENDS Integers, Sequences, FiniteSets, TLC

\* ------------------------------------------------------------------ bounds
NumNodes == 3
\* elections begun in a run, over all nodes
MaxElections == 3

\* peers a failure detector hears of
NumFdPeers == 2
\* the last instant of the failure detector's clock
MaxFdTime == 4
\* the largest timeout given to set_timeout
MaxTimeoutArg == 1

\* resources and owners the lock manager hears of
NumResources == 1
NumOwners == 2
\* the last instant of the lock manager's clock
MaxLockTime == 3
\* the largest timeout given to acquire
MaxLockTimeout == 2
\* the largest sequence number of the PBFT participant
MaxPbftSeq == 1
\* the most handle_prepare and handle_commit calls of the PBFT participant
MaxPbftMsgs == 4

\* ------------------------------------------------------- program constants
\* random.uniform(0.15, 0.3): the election timeout, in units of 50 ms
TimeoutLow == 3
TimeoutHigh == 6

\* FailureDetector.__init__: default_timeout = 0.5, in units of 250 ms
DefaultTimeout == 2

None == 0
Nodes == 1..NumNodes
FdPeers == 1..NumFdPeers
\* a key that a dict does not hold
Absent == -1
\* the message types handlers are registered for, and the values of the type
\* key of a request: "bogus" has no handler, "none" is a request without the key
MsgTypes == {"heartbeat", "vote_request"}
RequestTypes == MsgTypes \cup {"bogus", "none"}
\* what a registered handler does with a message: return a dict, return
\* another JSON value, return a value json.dumps rejects, raise
HandlerKinds == {"dict", "value", "unserializable", "raises"}
\* the lines a client sends: nothing (end of file), bytes that are not JSON,
\* JSON that is not an object, a JSON object
RawLines ==
    {[kind |-> k, type |-> "none"] : k \in {"eof", "garbage", "array"}}
        \cup {[kind |-> "object", type |-> t] : t \in RequestTypes}
NoLine == [kind |-> "eof", type |-> "none"]

Resources == 1..NumResources
Owners == 1..NumOwners
LockTypes == {"exclusive", "shared"}
\* timeout=None of acquire
NoTimeout == -1
LockTimeouts == {NoTimeout} \cup (0..MaxLockTimeout)
\* self._locks without the key
NoLock == [owner |-> None, lock_type |-> "none", expires_at |-> None]
\* neither acquire nor release was called yet.  flip changes at every call
NoCall == [op |-> "none", resource |-> 0, owner |-> None, ok |-> FALSE, flip |-> FALSE]
\* the sequence numbers of the PBFT participant
PbftSeqs == 1..MaxPbftSeq
\* PBFTNode.peers: three peers, so that a commit quorum is three commits
PbftPeers == {1, 2, 3}

\* the values election_timeout_sec takes at construction
TimeoutDraws == {TimeoutLow}
\* the clock stops here: every timer has then expired for good, since
\* _last_heartbeat_ts is never assigned after construction
MaxTime == TimeoutLow + 1

VARIABLES
    cluster,              \* number of nodes configured (PEERS of main.py)
    peers,                \* BaseNode.peers: per node, peer ids in insertion order
    state,                \* BaseNode.state
    current_term,         \* BaseNode.current_term
    voted_for,            \* BaseNode.voted_for
    leader_id,            \* RaftNode.leader_id
    election_timeout_sec, \* RaftNode.election_timeout_sec
    timeout_draws,        \* history: the calls of random.uniform a node has made
    last_heartbeat_ts,    \* RaftNode._last_heartbeat_ts
    now,                  \* time.time()
    pc,                   \* position of the watchdog task of each node
    todo,                 \* _begin_election: peers still to ask in the round
    votes,                \* _begin_election: local variable votes
    hb_tasks,             \* number of live _leader_heartbeat_loop tasks
    stopped,              \* stop() has completed on the node
    leaderLog,            \* history: <<n, T>> for every time n became leader in T
    voteLog,              \* history: per node, <<T, id>> for every vote cast
    lastReset,            \* history: time of the last vote grant / valid heartbeat
    lastStale,            \* history: the last stale vote_request of a round still running
    asked,                \* history: per node, <<peer, T>> for every _request_vote of its last round
    grants,               \* history: per node, the peers whose grant reached it in its running round
    fd_time,              \* time.time() as the failure detector reads it
    fd_default_timeout,   \* FailureDetector.default_timeout
    fd_last_seen,         \* FailureDetector._last_seen (Absent: no such key)
    fd_keys,              \* the keys of _last_seen, in insertion order
    fd_timeouts,          \* FailureDetector._timeouts (Absent: no such key)
    fd_on_suspect,        \* FailureDetector._on_suspect is a callback (not None)
    fd_monitor,           \* FailureDetector._monitor_task
    fd_loops,             \* number of live _run tasks (created and not ended)
    fd_tick,              \* what the last polling tick of the monitor did
    markedAt,             \* history: time of the last mark_heartbeat of a peer
    fd_stop,              \* history: the calls of stop_monitor
    mh_handlers,          \* MessageHandler._handlers: what the handler of a type does
    mh_phase,             \* the connection the server is serving
    mh_raw,               \* the line read from the connection
    mh_replies,           \* the replies written to the connection
    lm_locks,             \* LockManager._locks (NoLock: no such key)
    lm_locks_locks,       \* the keys of LockManager._locks_locks
    lm_time,              \* time.time() as the lock manager reads it
    lm_last,              \* history: the last call of acquire or release
    pb_view,              \* PBFTNode.view
    pb_sequence,          \* PBFTNode.sequence
    pb_prepared,          \* PBFTNode.prepared (<<>>: no such key)
    pb_committed          \* PBFTNode.committed (<<>>: no such key)

raftVars == <<cluster, peers, state, current_term, voted_for, leader_id,
              election_timeout_sec, timeout_draws, last_heartbeat_ts, now, pc,
              todo, votes, hb_tasks, stopped, leaderLog, voteLog, lastReset,
              lastStale, asked, grants>>

fdVars == <<fd_time, fd_default_timeout, fd_last_seen, fd_keys, fd_timeouts,
            fd_on_suspect, fd_monitor, fd_loops, fd_tick, markedAt, fd_stop>>

mhVars == <<mh_handlers, mh_phase, mh_raw, mh_replies>>

lmVars == <<lm_locks, lm_locks_locks, lm_time, lm_last>>

pbVars == <<pb_view, pb_sequence, pb_prepared, pb_committed>>

nonRaftVars == <<fdVars, mhVars, lmVars, pbVars>>
nonFdVars == <<raftVars, mhVars, lmVars, pbVars>>
nonMhVars == <<raftVars, fdVars, lmVars, pbVars>>
nonLmVars == <<raftVars, fdVars, mhVars, pbVars>>
nonPbVars == <<raftVars, fdVars, mhVars, lmVars>>

vars == <<raftVars, fdVars, mhVars, lmVars, pbVars>>

\* The peers of node n in a cluster of k nodes, in ascending order.
RECURSIVE PeerSeq(_, _, _)
PeerSeq(n, i, k) ==
    IF i > k THEN <<>>
    ELSE IF i = n THEN PeerSeq(n, i + 1, k)
    ELSE <<i>> \o PeerSeq(n, i + 1, k)

Members == 1..cluster

\* ------------------------------------------------------------ construction
NoTick == [done |-> FALSE, cb |-> FALSE, suspected |-> {}, calls |-> <<>>,
           raised |-> {}, alive |-> TRUE, again |-> FALSE]

\* no stop_monitor yet.  called: stop_monitor has returned and start_monitor
\* was not called since it did; from: the states of _monitor_task
\* stop_monitor was called in (a task that is not done counts as running);
\* raised: a call of stop_monitor ended with an exception
NoStop == [called |-> FALSE, from |-> {}, raised |-> FALSE]

\* FailureDetector.__init__
FdInit ==
    /\ fd_time = 0
    /\ fd_default_timeout = DefaultTimeout
    /\ fd_last_seen = [p \in FdPeers |-> Absent]
    /\ fd_keys = <<>>
    /\ fd_timeouts = [p \in FdPeers |-> Absent]
    /\ fd_on_suspect = FALSE
    /\ fd_monitor = "none"
    /\ fd_loops = 0
    /\ fd_tick = NoTick
    /\ markedAt = [p \in FdPeers |-> Absent]
    /\ fd_stop = NoStop

\* no node has handled a vote_request of a term below its own in a round
\* that is still running
NoStale == [to |-> None, candidate_id |-> None]

\* BaseNode.__init__ and RaftNode.__init__ of every node, then main_node:
\* connect_to_peer for every configured peer, and start(); k nodes are
\* configured
RaftInit(k) ==
    /\ cluster = k
    /\ peers = [n \in Nodes |-> IF n <= cluster THEN PeerSeq(n, 1, cluster) ELSE <<>>]
    /\ state = [n \in Nodes |-> "follower"]
    /\ current_term = [n \in Nodes |-> 0]
    /\ voted_for = [n \in Nodes |-> None]
    /\ leader_id = [n \in Nodes |-> None]
    /\ election_timeout_sec \in [Nodes -> TimeoutDraws]
    /\ timeout_draws = [n \in Nodes |-> 1]
    /\ last_heartbeat_ts = [n \in Nodes |-> 0]
    /\ now = 0
    /\ pc = [n \in Nodes |-> "sleep"]
    /\ todo = [n \in Nodes |-> <<>>]
    /\ votes = [n \in Nodes |-> 0]
    /\ hb_tasks = [n \in Nodes |-> 0]
    /\ stopped = [n \in Nodes |-> FALSE]
    /\ leaderLog = {}
    /\ voteLog = [n \in Nodes |-> {}]
    /\ lastReset = [n \in Nodes |-> -1]
    /\ lastStale = NoStale
    /\ asked = [n \in Nodes |-> <<>>]
    /\ grants = [n \in Nodes |-> {}]

\* MessageHandler.__init__, and no connection yet
MhInit ==
    /\ mh_handlers = [t \in MsgTypes |-> "absent"]
    /\ mh_phase = "idle"
    /\ mh_raw = NoLine
    /\ mh_replies = <<>>

\* LockManager.__init__; time.time() is positive
LmInit ==
    /\ lm_locks = [r \in Resources |-> NoLock]
    /\ lm_locks_locks = {}
    /\ lm_time = 1
    /\ lm_last = NoCall

\* PBFTNode.__init__
PbInit ==
    /\ pb_view = 0
    /\ pb_sequence = 0
    /\ pb_prepared = [q \in PbftSeqs |-> <<>>]
    /\ pb_committed = [q \in PbftSeqs |-> <<>>]

Init ==
    /\ \E k \in Nodes : RaftInit(k)
    /\ FdInit
    /\ MhInit
    /\ LmInit
    /\ PbInit

\* a failure detector beside a single node
InitFD ==
    /\ RaftInit(1)
    /\ FdInit
    /\ MhInit
    /\ LmInit
    /\ PbInit

\* a message handler beside a single node
InitTransport ==
    /\ RaftInit(1)
    /\ FdInit
    /\ MhInit
    /\ LmInit
    /\ PbInit

\* a lock manager beside a single node
InitLocks ==
    /\ RaftInit(1)
    /\ FdInit
    /\ MhInit
    /\ LmInit
    /\ PbInit

\* a PBFT participant beside a single node
InitPBFT ==
    /\ RaftInit(1)
    /\ FdInit
    /\ MhInit
    /\ LmInit
    /\ PbInit

\* ------------------------------------------------------------------- raft
\* the majority without its + 1: half of the cluster
MajorityOfHalf(n) == (Len(peers[n]) + 1) \div 2

\* majority = (len(self.peers) + 1) // 2 + 1
Majority(n) == (Len(peers[n]) + 1) \div 2 + 1

\* the tally looking only for a vote, not for a majority
HasAnyVote(n, v) == v >= 1

\* if votes >= majority
HasQuorum(n, v) == v >= Majority(n)

\* _handle_vote_request: the returned bool
VoteGranted(n, m) ==
    IF m.term < current_term[n] THEN FALSE
    ELSE voted_for[n] = None \/ voted_for[n] = m.candidate_id

\* the handler recording the candidate before it decides
VotedForCandidateAlways(n, m) == m.candidate_id

\* _handle_vote_request: voted_for afterwards
VotedForAfter(n, m) ==
    IF VoteGranted(n, m) THEN m.candidate_id ELSE voted_for[n]

\* the handler taking the term of the request before it compares terms
TermOfRequestTaken(n, m) == m.term

\* _handle_vote_request: current_term afterwards (the handler never assigns it)
TermAfterVoteRequest(n, m) == current_term[n]

\* _handle_vote_request: state afterwards (the handler never assigns it)
StateAfterVoteRequest(n, m) == state[n]

\* _begin_election without its increment of the term
TermKeptAtBegin(n) == current_term[n]

\* _begin_election: self.current_term += 1
TermAfterBegin(n) == current_term[n] + 1

VoteRequest(n) == [type |-> "vote_request", term |-> current_term[n], candidate_id |-> n]

\* The end of _begin_election (lines 64-69), with v votes counted, applied on
\* top of the values st/ld of state and leader_id.
Tally(n, v, st, ld, term) ==
    IF HasQuorum(n, v)
    THEN /\ state' = [st EXCEPT ![n] = "leader"]
         /\ leader_id' = [ld EXCEPT ![n] = n]
         /\ hb_tasks' = [hb_tasks EXCEPT ![n] = @ + 1]
         /\ leaderLog' = leaderLog \cup {<<n, term>>}
    ELSE /\ state' = st
         /\ leader_id' = ld
         /\ UNCHANGED <<hb_tasks, leaderLog>>

\* BaseNode.stop: logs, and nothing else
Stop(n) ==
    /\ ~stopped[n]
    /\ stopped' = [stopped EXCEPT ![n] = TRUE]
    /\ UNCHANGED nonRaftVars
    /\ UNCHANGED <<cluster, peers, state, current_term, voted_for, leader_id,
                   election_timeout_sec, last_heartbeat_ts, now, pc, todo, votes,
                   hb_tasks, leaderLog, voteLog, lastReset,
                   timeout_draws, lastStale, asked, grants>>

\* time passes
Tick ==
    /\ now < MaxTime
    /\ now' = now + 1
    /\ UNCHANGED nonRaftVars
    /\ UNCHANGED <<cluster, peers, state, current_term, voted_for, leader_id,
                   election_timeout_sec, last_heartbeat_ts, pc, todo, votes,
                   hb_tasks, stopped, leaderLog, voteLog, lastReset,
                   timeout_draws, lastStale, asked, grants>>

\* _run_election_watchdog: elapsed > self.election_timeout_sec
TimerExpired(n) == now - last_heartbeat_ts[n] > election_timeout_sec[n]

\* _begin_election up to the first await (lines 48-53), and its end when
\* there is no peer to ask
BeginElection(n) ==
    /\ current_term' = [current_term EXCEPT ![n] = TermAfterBegin(n)]
    /\ voted_for' = [voted_for EXCEPT ![n] = n]
    /\ votes' = [votes EXCEPT ![n] = 1]
    /\ voteLog' = [voteLog EXCEPT ![n] = @ \cup {<<TermAfterBegin(n), n>>}]
    /\ asked' = [asked EXCEPT ![n] = <<>>]
    /\ grants' = [grants EXCEPT ![n] = {}]
    /\ IF peers[n] = <<>>
       THEN /\ Tally(n, 1, [state EXCEPT ![n] = "candidate"],
                     [leader_id EXCEPT ![n] = None], TermAfterBegin(n))
            /\ UNCHANGED <<pc, todo>>
       ELSE /\ state' = [state EXCEPT ![n] = "candidate"]
            /\ leader_id' = [leader_id EXCEPT ![n] = None]
            /\ pc' = [pc EXCEPT ![n] = "vote"]
            /\ todo' = [todo EXCEPT ![n] = peers[n]]
            /\ UNCHANGED <<hb_tasks, leaderLog>>
    /\ UNCHANGED nonRaftVars
    /\ UNCHANGED <<cluster, peers, election_timeout_sec, last_heartbeat_ts, now,
                   stopped, lastReset, timeout_draws, lastStale>>

RECURSIVE SumTerms(_)
SumTerms(i) == IF i = 0 THEN 0 ELSE current_term[i] + SumTerms(i - 1)
\* every election adds one to the term of its node, and nothing else changes a term
ElectionsBegun == SumTerms(NumNodes)

\* _run_election_watchdog: one wake-up of the loop
Watchdog(n) ==
    /\ pc[n] = "sleep"
    /\ IF TimerExpired(n)
       THEN /\ ElectionsBegun < MaxElections
            /\ BeginElection(n)
       ELSE UNCHANGED vars

\* the round counting every reply that came back
VotesAfterAnyReply(n, ok) == votes[n] + 1

\* if ok: votes += 1
VotesAfterReply(n, ok) == IF ok THEN votes[n] + 1 ELSE votes[n]

\* The round's bookkeeping after the reply ok of the peer at the head of todo
\* (lines 58-69), applied on top of the values st of state
AfterReply(n, ok, st) ==
    LET v == VotesAfterReply(n, ok) IN
    /\ votes' = [votes EXCEPT ![n] = v]
    /\ grants' = [grants EXCEPT ![n] = IF Len(todo[n]) = 1 THEN {}
                                       ELSE IF ok THEN @ \cup {Head(todo[n])}
                                       ELSE @]
    /\ todo' = [todo EXCEPT ![n] = Tail(@)]
    /\ asked' = [asked EXCEPT ![n] = Append(@, <<Head(todo[n]), current_term[n]>>)]
    /\ IF Len(todo[n]) = 1
       THEN /\ Tally(n, v, st, leader_id, current_term[n])
            /\ pc' = [pc EXCEPT ![n] = "sleep"]
       ELSE /\ state' = st
            /\ UNCHANGED <<leader_id, hb_tasks, leaderLog, pc>>

\* lastStale when the round of n ends
StaleAtRoundEnd(n) ==
    IF lastStale.candidate_id = n THEN NoStale ELSE lastStale

\* _request_vote as shipped (returns False), or an RPC that fails or raises
RequestVoteFails(n) ==
    /\ pc[n] = "vote"
    /\ AfterReply(n, FALSE, state)
    /\ lastStale' = IF Len(todo[n]) = 1 THEN StaleAtRoundEnd(n) ELSE lastStale
    /\ UNCHANGED nonRaftVars
    /\ UNCHANGED <<cluster, peers, current_term, voted_for, election_timeout_sec,
                   last_heartbeat_ts, now, stopped, voteLog, lastReset,
                   timeout_draws>>

\* _request_vote wired to the peer p at the head of todo: p runs
\* _handle_vote_request on the vote_request of n; the returned bool reaches
\* the candidate (lost = FALSE) or does not.
RequestVoteDelivered(n, lost) ==
    /\ pc[n] = "vote"
    /\ LET p == Head(todo[n])
           m == VoteRequest(n)
           g == VoteGranted(p, m)
       IN /\ voted_for' = [voted_for EXCEPT ![p] = VotedForAfter(p, m)]
          /\ current_term' = [current_term EXCEPT ![p] = TermAfterVoteRequest(p, m)]
          /\ voteLog' = [voteLog EXCEPT ![p] =
                            IF g THEN @ \cup {<<m.term, m.candidate_id>>} ELSE @]
          /\ lastReset' = [lastReset EXCEPT ![p] = IF g THEN now ELSE @]
          /\ lastStale' = IF Len(todo[n]) = 1 THEN StaleAtRoundEnd(n)
                          ELSE IF m.term < current_term[p]
                          THEN [to |-> p, candidate_id |-> n]
                          ELSE lastStale
          /\ AfterReply(n, g /\ ~lost, [state EXCEPT ![p] = StateAfterVoteRequest(p, m)])
    /\ UNCHANGED nonRaftVars
    /\ UNCHANGED <<cluster, peers, election_timeout_sec, last_heartbeat_ts, now,
                   stopped, timeout_draws>>

\* _leader_heartbeat_loop: one wake-up of one loop task; send_heartbeat sends
\* nothing (the body of BaseNode.send_heartbeat's loop is pass)
HeartbeatLoop(n) ==
    /\ hb_tasks[n] > 0
    /\ IF state[n] = "leader"
       THEN UNCHANGED hb_tasks
       ELSE hb_tasks' = [hb_tasks EXCEPT ![n] = @ - 1]
    /\ UNCHANGED nonRaftVars
    /\ UNCHANGED <<cluster, peers, state, current_term, voted_for, leader_id,
                   election_timeout_sec, last_heartbeat_ts, now, pc, todo, votes,
                   stopped, leaderLog, voteLog, lastReset,
                   timeout_draws, lastStale, asked, grants>>

Heartbeat(l) == [type |-> "heartbeat", term |-> current_term[l], leader_id |-> l]

\* handle_message on a heartbeat: BaseNode._handle_heartbeat returns None, and
\* RaftNode does not override it.  A heartbeat of a term not below the node's
\* is a valid one: lastReset records when it came.
HandleHeartbeat(n, m) ==
    /\ lastReset' = [lastReset EXCEPT ![n] = IF m.term >= current_term[n] THEN now ELSE @]
    /\ UNCHANGED nonRaftVars
    /\ UNCHANGED <<cluster, peers, state, current_term, voted_for, leader_id,
                   election_timeout_sec, last_heartbeat_ts, now, pc, todo, votes,
                   hb_tasks, stopped, leaderLog, voteLog,
                   timeout_draws, lastStale, asked, grants>>

\* a heartbeat of leader l reaches its peer n
HeartbeatDelivered(l, n) ==
    /\ state[l] = "leader"
    /\ HandleHeartbeat(n, Heartbeat(l))

Next ==
    \/ Tick
    \/ \E n \in Members : Watchdog(n)
    \/ \E n \in Members : RequestVoteFails(n)
    \/ \E n \in Members : \E lost \in BOOLEAN : RequestVoteDelivered(n, lost)
    \/ \E n \in Members : HeartbeatLoop(n)
    \/ \E l \in Members : \E n \in Members \ {l} : HeartbeatDelivered(l, n)

Spec == Init /\ [][Next]_vars

\* the live heartbeat loops of node n that were started for a leadership that
\* has ended: state leaves "leader" only in _begin_election, which cancels no
\* task, and the one loop of the current leadership is the last one created
StaleLoops(n) == IF state[n] = "leader" THEN hb_tasks[n] - 1 ELSE hb_tasks[n]

\* the event loop runs every task that is ready: each heartbeat loop wakes up
\* after its sleep, each watchdog after its own, each pending request ends
FairLoops ==
    /\ WF_vars(Tick)
    /\ \A n \in Nodes : WF_vars(HeartbeatLoop(n))
    /\ \A n \in Nodes : WF_vars(Watchdog(n))
    /\ \A n \in Nodes :
          WF_vars(RequestVoteFails(n) \/ \E lost \in BOOLEAN : RequestVoteDelivered(n, lost))

SpecLoops == Init /\ [][Next]_vars /\ FairLoops

\* the elections alone: the watchdogs and the vote rounds.  The heartbeat
\* loop and the heartbeat handler assign no field of a node
NextElection ==
    \/ Tick
    \/ \E n \in Members : Watchdog(n)
    \/ \E n \in Members : RequestVoteFails(n)
    \/ \E n \in Members : \E lost \in BOOLEAN : RequestVoteDelivered(n, lost)

SpecElection == Init /\ [][NextElection]_vars

\* _request_vote wired to send_message, and the peer at the head of todo
\* accepts the connection and never replies: send_message awaits
\* reader.readline() without a timeout, and _begin_election awaits it
RequestVoteHangs(n) ==
    /\ pc[n] = "vote"
    /\ pc' = [pc EXCEPT ![n] = "hung"]
    /\ UNCHANGED nonRaftVars
    /\ UNCHANGED <<cluster, peers, state, current_term, voted_for, leader_id,
                   election_timeout_sec, timeout_draws, last_heartbeat_ts, now,
                   todo, votes, hb_tasks, stopped, leaderLog, voteLog, lastReset,
                   lastStale, asked, grants>>

\* a step of the vote round of node n
RoundStep(n) ==
    \/ RequestVoteFails(n)
    \/ \E lost \in BOOLEAN : RequestVoteDelivered(n, lost)
    \/ RequestVoteHangs(n)

\* the elections with peers that may hang
NextHang ==
    \/ Tick
    \/ \E n \in Members : Watchdog(n)
    \/ \E n \in Members : RoundStep(n)

\* the event loop runs every task that is ready: time passes, a watchdog
\* that can wake up does, and a round whose reply or failure is due goes on
FairHang ==
    /\ WF_vars(Tick)
    /\ \A n \in Nodes : WF_vars(Watchdog(n))
    /\ \A n \in Nodes : WF_vars(RoundStep(n))

SpecHang == Init /\ [][NextHang]_vars /\ FairHang

\* the same, with nodes being stopped
NextStop ==
    \/ Next
    \/ \E n \in Members : Stop(n)

SpecStop == Init /\ [][NextStop]_vars

\* ------------------------------------------------------- failure detector
\* _timeout_for: self._timeouts.get(peer_id, self.default_timeout)
TimeoutFor(p) ==
    IF fd_timeouts[p] # Absent THEN fd_timeouts[p] ELSE fd_default_timeout

\* is_suspected with >= for >
IsSuspectedAtTimeout(p) ==
    IF fd_last_seen[p] = Absent THEN TRUE
    ELSE fd_time - fd_last_seen[p] >= TimeoutFor(p)

\* is_suspected
IsSuspected(p) ==
    IF fd_last_seen[p] = Absent THEN TRUE
    ELSE fd_time - fd_last_seen[p] > TimeoutFor(p)

\* notifying only the peers that the tick before did not notify
ShouldNotifyNewOnly(p) ==
    IsSuspected(p) /\ fd_on_suspect /\ p \notin {fd_tick.calls[i] : i \in 1..Len(fd_tick.calls)}

\* _run: if self.is_suspected(peer) and self._on_suspect
ShouldNotify(p) == IsSuspected(p) /\ fd_on_suspect

\* _run: self._on_suspect(peer) returned
OnCallbackReturn(acc, p) ==
    [acc EXCEPT !.calls = Append(@, p)]

\* the exception of the callback leaving the loop
OnCallbackRaiseEndsTask(acc, p) ==
    [acc EXCEPT !.calls = Append(@, p), !.raised = @ \cup {p}, !.alive = FALSE]

\* _run: self._on_suspect(peer) raised: except Exception: pass
OnCallbackRaise(acc, p) ==
    [acc EXCEPT !.calls = Append(@, p), !.raised = @ \cup {p}]

\* _run: for peer in list(self._last_seen.keys()), the callback raising for
\* the peers of R
RECURSIVE PollPeers(_, _, _)
PollPeers(keys, R, acc) ==
    IF keys = <<>> \/ ~acc.alive THEN acc
    ELSE LET p == Head(keys) IN
         PollPeers(Tail(keys), R,
                   IF ShouldNotify(p)
                   THEN IF p \in R THEN OnCallbackRaise(acc, p)
                        ELSE OnCallbackReturn(acc, p)
                   ELSE acc)

Range(s) == {s[i] : i \in 1..Len(s)}

\* time passes
FdTick ==
    /\ fd_time < MaxFdTime
    /\ fd_time' = fd_time + 1
    /\ UNCHANGED <<fd_default_timeout, fd_last_seen, fd_keys, fd_timeouts,
                   fd_on_suspect, fd_monitor, fd_loops, fd_tick, markedAt, fd_stop>>
    /\ UNCHANGED nonFdVars

\* mark_heartbeat
MarkHeartbeat(p) ==
    /\ fd_last_seen' = [fd_last_seen EXCEPT ![p] = fd_time]
    /\ fd_keys' = IF fd_last_seen[p] = Absent THEN Append(fd_keys, p) ELSE fd_keys
    /\ markedAt' = [markedAt EXCEPT ![p] = fd_time]
    /\ UNCHANGED <<fd_time, fd_default_timeout, fd_timeouts, fd_on_suspect,
                   fd_monitor, fd_loops, fd_tick, fd_stop>>
    /\ UNCHANGED nonFdVars

\* set_timeout
SetTimeout(p, d) ==
    /\ fd_timeouts' = [fd_timeouts EXCEPT ![p] = d]
    /\ UNCHANGED <<fd_time, fd_default_timeout, fd_last_seen, fd_keys,
                   fd_on_suspect, fd_monitor, fd_loops, fd_tick, markedAt, fd_stop>>
    /\ UNCHANGED nonFdVars

\* register_suspect_callback
RegisterSuspectCallback ==
    /\ fd_on_suspect' = TRUE
    /\ UNCHANGED <<fd_time, fd_default_timeout, fd_last_seen, fd_keys,
                   fd_timeouts, fd_monitor, fd_loops, fd_tick, markedAt, fd_stop>>
    /\ UNCHANGED nonFdVars

\* start_monitor without its guard
MonitorTaskNeverLive(task) == FALSE

\* start_monitor: self._monitor_task and not self._monitor_task.done(); a
\* task whose cancellation was requested is not done until it has ended
MonitorTaskLive(task) == task \in {"running", "cancelling"}

\* start_monitor: returns when a task exists that is not done, and creates a
\* task otherwise
StartMonitor ==
    /\ fd_monitor' = IF MonitorTaskLive(fd_monitor) THEN fd_monitor ELSE "running"
    /\ fd_loops' = IF MonitorTaskLive(fd_monitor) THEN fd_loops ELSE fd_loops + 1
    /\ fd_stop' = [fd_stop EXCEPT !.called = FALSE]
    /\ UNCHANGED <<fd_time, fd_default_timeout, fd_last_seen, fd_keys,
                   fd_timeouts, fd_on_suspect, fd_tick, markedAt>>
    /\ UNCHANGED nonFdVars

\* stop_monitor without the cancel()
MonitorNotCancelled(task) == task

\* stop_monitor: _monitor_task after cancel().  cancel() asks a task that is
\* not done to end at its await, and does nothing to a task that is done
MonitorAfterStop(task) ==
    IF task = "running" THEN "cancelling" ELSE task

\* stop_monitor: await self._monitor_task raises what the task ended with;
\* only CancelledError is caught
StopMonitorRaises(task) == task = "failed"

\* stop_monitor up to its await: it returns at once when there is no task or
\* the task is done, and waits for the end of a task it has cancelled
StopMonitor ==
    /\ fd_monitor' = MonitorAfterStop(fd_monitor)
    /\ fd_stop' = [called |-> MonitorAfterStop(fd_monitor) # "cancelling",
                   from |-> fd_stop.from \cup
                              {IF MonitorTaskLive(fd_monitor) THEN "running"
                                                              ELSE fd_monitor},
                   raised |-> fd_stop.raised \/ StopMonitorRaises(fd_monitor)]
    /\ UNCHANGED <<fd_time, fd_default_timeout, fd_last_seen, fd_keys,
                   fd_timeouts, fd_on_suspect, fd_loops, fd_tick, markedAt>>
    /\ UNCHANGED nonFdVars

\* the cancelled task ends at its await asyncio.sleep with CancelledError,
\* and the stop_monitor that awaits it catches the error and returns
MonitorCancelled ==
    /\ fd_monitor = "cancelling"
    /\ fd_monitor' = "cancelled"
    /\ fd_loops' = fd_loops - 1
    /\ fd_stop' = [fd_stop EXCEPT !.called = TRUE]
    /\ UNCHANGED <<fd_time, fd_default_timeout, fd_last_seen, fd_keys,
                   fd_timeouts, fd_on_suspect, fd_tick, markedAt>>
    /\ UNCHANGED nonFdVars

\* _run: one iteration of while True, up to the sleep; the callback raises
\* for the peers of R
MonitorPoll(R) ==
    /\ fd_monitor = "running"
    /\ LET start == [NoTick EXCEPT !.done = TRUE, !.cb = fd_on_suspect,
                         !.suspected = {p \in Range(fd_keys) : IsSuspected(p)}]
           r == PollPeers(fd_keys, R, start)
       IN /\ fd_tick' = [r EXCEPT !.again =
                            Range(r.calls) \cap Range(fd_tick.calls) # {}]
          /\ fd_monitor' = IF r.alive THEN "running" ELSE "failed"
          /\ fd_loops' = IF r.alive THEN fd_loops ELSE fd_loops - 1
    /\ UNCHANGED <<fd_time, fd_default_timeout, fd_last_seen, fd_keys,
                   fd_timeouts, fd_on_suspect, markedAt, fd_stop>>
    /\ UNCHANGED nonFdVars

\* the peers the callback is invoked for in a tick taken now
Notified == {p \in Range(fd_keys) : ShouldNotify(p)}

\* marks, timeouts and the passing of time: what is_suspected reads
NextFD ==
    \/ FdTick
    \/ \E p \in FdPeers : MarkHeartbeat(p)
    \/ \E p \in FdPeers : \E d \in 0..MaxTimeoutArg : SetTimeout(p, d)

SpecFD == InitFD /\ [][NextFD]_vars

\* the monitor task polling the peers
NextMonitor ==
    \/ FdTick
    \/ \E p \in FdPeers : MarkHeartbeat(p)
    \/ RegisterSuspectCallback
    \/ StartMonitor
    \/ StopMonitor
    \/ MonitorCancelled
    \/ \E R \in SUBSET Notified : MonitorPoll(R)

SpecMonitor == InitFD /\ [][NextMonitor]_vars

\* --------------------------------------------------------------- transport
\* json.loads(raw.decode()): the value, or a failure
JsonLoads(raw) ==
    IF raw.kind = "object" THEN [ok |-> TRUE, isdict |-> TRUE, type |-> raw.type]
    ELSE IF raw.kind = "array" THEN [ok |-> TRUE, isdict |-> FALSE, type |-> "none"]
    ELSE [ok |-> FALSE, isdict |-> FALSE, type |-> "none"]

\* self._handlers.get(mtype)
HandlerFor(mtype) ==
    IF mtype \in MsgTypes THEN mh_handlers[mtype] ELSE "absent"

\* reply = {"status": "error", "message": "unknown type"}
UnknownTypeReply == [status |-> "error", message |-> "unknown type", result |-> "absent"]

\* reply = res if isinstance(res, dict) else {"result": res}
ReplyOf(kind) ==
    IF kind = "dict" THEN [status |-> "ok", message |-> "absent", result |-> "absent"]
    ELSE [status |-> "absent", message |-> "absent", result |-> kind]

\* _handle_connection, lines 76-90: what is written to the connection for a
\* line that is not empty.  message.get raises on a value that is not a
\* dict, json.dumps on a reply it cannot serialize, and the handler may
\* raise: except Exception prints, and nothing is written.
RepliesTo(raw) ==
    LET message == JsonLoads(raw) IN
    IF ~message.ok THEN <<>>
    ELSE IF ~message.isdict THEN <<>>
    ELSE LET handler == HandlerFor(message.type) IN
         IF handler = "absent" THEN <<UnknownTypeReply>>
         ELSE IF handler = "raises" THEN <<>>
         ELSE IF handler = "unserializable" THEN <<>>
         ELSE <<ReplyOf(handler)>>

\* register_handler
RegisterHandler(t, k) ==
    /\ mh_handlers' = [mh_handlers EXCEPT ![t] = k]
    /\ UNCHANGED <<mh_phase, mh_raw, mh_replies>>
    /\ UNCHANGED nonMhVars

\* a client connects and sends a line (or closes at once): asyncio starts
\* _handle_connection, which reads the line
AcceptConnection(raw) ==
    /\ mh_phase # "accepted"
    /\ mh_phase' = "accepted"
    /\ mh_raw' = raw
    /\ mh_replies' = <<>>
    /\ UNCHANGED mh_handlers
    /\ UNCHANGED nonMhVars

\* _handle_connection from the line read to the close of the writer
HandleConnection ==
    /\ mh_phase = "accepted"
    /\ mh_replies' = IF mh_raw.kind = "eof" THEN <<>> ELSE RepliesTo(mh_raw)
    /\ mh_phase' = "closed"
    /\ UNCHANGED <<mh_handlers, mh_raw>>
    /\ UNCHANGED nonMhVars

NextTransport ==
    \/ \E t \in MsgTypes : \E k \in HandlerKinds : RegisterHandler(t, k)
    \/ \E raw \in RawLines : AcceptConnection(raw)
    \/ HandleConnection

SpecTransport == InitTransport /\ [][NextTransport]_vars

\* ------------------------------------------------------------ lock manager
\* a record counted as expired from its expiry time on
IsExpiredAtDeadline(info) ==
    info # NoLock /\ info.expires_at # None /\ info.expires_at <= lm_time

\* cur and cur.expires_at and cur.expires_at < time.time()
IsExpired(info) ==
    info # NoLock /\ info.expires_at # None /\ info.expires_at < lm_time

\* acquire, lines 47-59: the internal asyncio.Lock is free whenever a call
\* starts (no call awaits while holding it), so lock.acquire() returns at
\* once; asyncio.wait_for with a timeout <= 0 cancels it and raises
\* TimeoutError before it ran
InternalLockTaken(timeout) == timeout = NoTimeout \/ timeout > 0

\* acquire, lines 63-66: the table after the expired record is removed
AfterExpiry(r) ==
    IF IsExpired(lm_locks[r]) THEN [lm_locks EXCEPT ![r] = NoLock] ELSE lm_locks

\* acquire: the returned bool
AcquireResult(r, timeout) ==
    InternalLockTaken(timeout) /\ AfterExpiry(r)[r] = NoLock

\* acquire: self._locks afterwards
LocksAfterAcquire(r, o, ty, timeout) ==
    IF ~InternalLockTaken(timeout) THEN lm_locks
    ELSE IF AfterExpiry(r)[r] # NoLock THEN AfterExpiry(r)
    ELSE [AfterExpiry(r) EXCEPT ![r] =
             [owner |-> o, lock_type |-> ty,
              expires_at |-> IF timeout = NoTimeout THEN None ELSE lm_time + timeout]]

\* release letting any owner remove the record
ReleaseByAnyone(r, o) == lm_locks[r] # NoLock

\* release: the returned bool
ReleaseResult(r, o) == lm_locks[r] # NoLock /\ lm_locks[r].owner = o

\* release: self._locks afterwards
LocksAfterRelease(r, o) ==
    IF ReleaseResult(r, o) THEN [lm_locks EXCEPT ![r] = NoLock] ELSE lm_locks

\* time passes
LmTick ==
    /\ lm_time < MaxLockTime
    /\ lm_time' = lm_time + 1
    /\ UNCHANGED <<lm_locks, lm_locks_locks, lm_last>>
    /\ UNCHANGED nonLmVars

\* acquire
Acquire(r, o, ty, timeout) ==
    /\ lm_locks_locks' = lm_locks_locks \cup {r}
    /\ lm_locks' = LocksAfterAcquire(r, o, ty, timeout)
    /\ lm_last' = [op |-> "acquire", resource |-> r, owner |-> o,
                   ok |-> AcquireResult(r, timeout), flip |-> ~lm_last.flip]
    /\ UNCHANGED lm_time
    /\ UNCHANGED nonLmVars

\* release
Release(r, o) ==
    /\ lm_locks_locks' = lm_locks_locks \cup {r}
    /\ lm_locks' = LocksAfterRelease(r, o)
    /\ lm_last' = [op |-> "release", resource |-> r, owner |-> o,
                   ok |-> ReleaseResult(r, o), flip |-> ~lm_last.flip]
    /\ UNCHANGED lm_time
    /\ UNCHANGED nonLmVars

\* status: an expired record is removed
Status(r) ==
    /\ lm_locks' = AfterExpiry(r)
    /\ UNCHANGED <<lm_locks_locks, lm_time, lm_last>>
    /\ UNCHANGED nonLmVars

\* list_locks: every expired record is removed
ListLocks ==
    /\ lm_locks' = [r \in Resources |-> IF IsExpired(lm_locks[r]) THEN NoLock ELSE lm_locks[r]]
    /\ UNCHANGED <<lm_locks_locks, lm_time, lm_last>>
    /\ UNCHANGED nonLmVars

NextLocks ==
    \/ LmTick
    \/ \E r \in Resources : \E o \in Owners : \E ty \in LockTypes :
           \E timeout \in LockTimeouts : Acquire(r, o, ty, timeout)
    \/ \E r \in Resources : \E o \in Owners : Release(r, o)
    \/ \E r \in Resources : Status(r)
    \/ ListLocks

SpecLocks == InitLocks /\ [][NextLocks]_vars

\* -------------------------------------------------------------------- pbft
\* the handle_prepare and handle_commit calls made so far
PbftHandled ==
    LET RECURSIVE Total(_)
        Total(S) == IF S = {} THEN 0
                    ELSE LET q == CHOOSE x \in S : TRUE
                         IN Len(pb_prepared[q]) + Len(pb_committed[q]) + Total(S \ {q})
    IN Total(PbftSeqs)

\* propose: the next sequence number is assigned and returned
Propose ==
    /\ pb_sequence < MaxPbftSeq
    /\ pb_sequence' = pb_sequence + 1
    /\ UNCHANGED <<pb_view, pb_prepared, pb_committed>>
    /\ UNCHANGED nonPbVars

\* handle_pre_prepare: logs only
HandlePrePrepare(seq) ==
    /\ UNCHANGED pbVars
    /\ UNCHANGED nonPbVars

\* handle_prepare: self.prepared.setdefault(seq, []).append(sender)
HandlePrepare(seq, sender) ==
    /\ PbftHandled < MaxPbftMsgs
    /\ pb_prepared' = [pb_prepared EXCEPT ![seq] = Append(@, sender)]
    /\ UNCHANGED <<pb_view, pb_sequence, pb_committed>>
    /\ UNCHANGED nonPbVars

\* handle_commit: self.committed.setdefault(seq, []).append(sender)
CommittedAfter(seq, sender) == Append(pb_committed[seq], sender)

\* handle_commit
HandleCommit(seq, sender) ==
    /\ PbftHandled < MaxPbftMsgs
    /\ pb_committed' = [pb_committed EXCEPT ![seq] = CommittedAfter(seq, sender)]
    /\ UNCHANGED <<pb_view, pb_sequence, pb_prepared>>
    /\ UNCHANGED nonPbVars

\* is_committed: len(self.committed.get(seq, [])) > len(self.peers) * 2 / 3
IsCommitted(seq) ==
    3 * Len(pb_committed[seq]) > 2 * Cardinality(PbftPeers)

NextPBFT ==
    \/ Propose
    \/ \E seq \in PbftSeqs : HandlePrePrepare(seq)
    \/ \E seq \in PbftSeqs : \E sender \in PbftPeers : HandlePrepare(seq, sender)
    \/ \E seq \in PbftSeqs : \E sender \in PbftPeers : HandleCommit(seq, sender)

SpecPBFT == InitPBFT /\ [][NextPBFT]_vars

\* ----------------------------------------------------------------- claims

\* C1: election safety: for every term T at most one node ever became
\* leader while its current term was T.
ElectionSafety ==
    \A a \in leaderLog : \A b \in leaderLog : a[2] = b[2] => a[1] = b[1]

\* C2: single vote per term: the identities a node voted for in a term T
\* (candidates it granted a request of term T, itself when it became
\* candidate for T) are at most one.
SingleVotePerTerm ==
    \A n \in Nodes : \A x \in voteLog[n] : \A y \in voteLog[n] :
        x[1] = y[1] => x[2] = y[2]

\* C3: the current term of a node never decreases, whatever the step.
TermNeverDecreases ==
    [][\A n \in Nodes : current_term'[n] >= current_term[n]]_vars

\* a node is at its second term and has granted a vote or seen a heartbeat
TermAdvancedTwice ==
    \E n \in Nodes : current_term[n] >= 2 /\ lastReset[n] >= 0

\* C4: quorum rule: when a vote round has ended, the candidate is leader
\* if and only if the votes it counted, its own included, are at least
\* floor(N/2)+1, N the size of the cluster.
QuorumRule ==
    \A n \in Nodes :
        (pc[n] = "sleep" /\ current_term[n] > 0) =>
            (state[n] = "leader" <=> votes[n] >= (cluster \div 2) + 1)

\* a round of a cluster of three ended with exactly the quorum, and another
\* round ended below it
QuorumReachedAndMissed ==
    /\ cluster = 3
    /\ \E n \in Nodes : pc[n] = "sleep" /\ votes[n] = 2 /\ state[n] = "leader"
    /\ \E n \in Nodes : pc[n] = "sleep" /\ votes[n] = 1 /\ state[n] = "candidate"

\* C5: a node that handles a vote request of a term above its own ends with
\* that term, as follower, and has granted: voted_for is the candidate.
HigherTermRequestAdopted ==
    [][\A n \in Nodes : \A lost \in BOOLEAN :
          (RequestVoteDelivered(n, lost)
              /\ current_term[n] > current_term[Head(todo[n])]) =>
          LET p == Head(todo[n]) IN
              /\ current_term'[p] = current_term[n]
              /\ state'[p] = "follower"
              /\ voted_for'[p] = n
              /\ VoteGranted(p, VoteRequest(n))]_vars

\* C6: a node that granted a vote or took a valid heartbeat less than one
\* election timeout ago does not start an election.
NoElectionAfterReset ==
    [][\A n \in Nodes :
          (current_term'[n] = current_term[n] + 1 /\ state'[n] = "candidate"
              /\ pc'[n] = "vote") =>
          ~(lastReset[n] >= 0 /\ now - lastReset[n] < election_timeout_sec[n])]_vars

\* C7: once stop() has completed on a node, its term, role, voted_for and
\* leader_id never change again.
StoppedNodeIsFrozen ==
    [][\A n \in Nodes :
          stopped[n] =>
              /\ current_term'[n] = current_term[n]
              /\ state'[n] = state[n]
              /\ voted_for'[n] = voted_for[n]
              /\ leader_id'[n] = leader_id[n]]_vars

\* the timeout in force for a peer: its own when one was set, else the default
EffectiveTimeout(p) ==
    IF fd_timeouts[p] = Absent THEN fd_default_timeout ELSE fd_timeouts[p]

\* C8: suspicion lifecycle: a peer is suspected before any mark_heartbeat
\* of it, is not suspected at the instant of a mark, is not suspected while
\* now - lastSeen <= the effective timeout, and is suspected whenever
\* now - lastSeen > the effective timeout.
SuspicionLifecycle ==
    \A p \in FdPeers :
        /\ markedAt[p] = Absent => IsSuspected(p)
        /\ markedAt[p] = fd_time => ~IsSuspected(p)
        /\ (markedAt[p] # Absent /\ fd_time - markedAt[p] <= EffectiveTimeout(p))
               => ~IsSuspected(p)
        /\ (markedAt[p] # Absent /\ fd_time - markedAt[p] > EffectiveTimeout(p))
               => IsSuspected(p)

\* a marked peer has become suspected again, another was marked just now,
\* and a third case: a peer exactly at its timeout
SuspectedAgainAfterMark ==
    /\ \E p \in FdPeers : markedAt[p] # Absent /\ IsSuspected(p)
    /\ \E p \in FdPeers : markedAt[p] # Absent /\ markedAt[p] < fd_time
                              /\ fd_time - markedAt[p] = EffectiveTimeout(p)
                              /\ ~IsSuspected(p)

Count(p, s) == Cardinality({i \in 1..Len(s) : s[i] = p})

CallbackIsolation ==
    /\ fd_monitor # "failed"
    /\ (fd_tick.done /\ fd_tick.raised # {}) =>
           /\ fd_tick.alive
           /\ \A p \in fd_tick.suspected : Count(p, fd_tick.calls) = 1

\* the callback raised for a peer and was invoked for a later peer of the
\* same tick, and the monitor is still running
RaisedThenNotifiedNext ==
    /\ fd_tick.done /\ fd_monitor = "running"
    /\ \E i \in 1..Len(fd_tick.calls) : \E j \in 1..Len(fd_tick.calls) :
           i < j /\ fd_tick.calls[i] \in fd_tick.raised

\* C11: stop_monitor is safe in every state: no call of it ends with an
\* exception, whether no monitor was ever started, the monitor was already
\* stopped or the monitor runs; a call changes no peer state (_last_seen,
\* _timeouts); and once a call has completed the monitor does not run and no
\* polling tick, hence no callback invocation, happens until start_monitor
\* is called again.
StopMonitorSafe ==
    [][/\ ~fd_stop'.raised
       /\ (fd_stop' # fd_stop /\ fd_stop'.called) =>
              UNCHANGED <<fd_last_seen, fd_keys, fd_timeouts>>
       /\ fd_stop.called => (fd_monitor # "running" /\ fd_tick' = fd_tick)]_vars

\* stop_monitor was called with no monitor, with a running monitor that had
\* invoked the callback, and with a stopped monitor; it has completed and a
\* known peer is suspected, so that a polling tick would invoke the callback
StoppedInEveryState ==
    /\ fd_stop.called
    /\ fd_stop.from = {"none", "running", "cancelled"}
    /\ fd_tick.calls # <<>>
    /\ Notified # {}

\* the request of the exchange is one the claim wants an error reply for: it
\* is malformed, its type is unknown, or its handler fails
WantsErrorReply ==
    \/ mh_raw.kind \in {"garbage", "array"}
    \/ mh_raw.kind = "object" /\ HandlerFor(mh_raw.type) \in {"absent", "raises"}

\* C12: transport exchange: when the server has finished with a connection
\* on which it received a request, exactly one reply was written to it, and
\* the reply is error-shaped when the request was malformed, of an unknown
\* type, or one whose handler failed.
OneReplyPerRequest ==
    (mh_phase = "closed" /\ mh_raw.kind # "eof") =>
        /\ Len(mh_replies) = 1
        /\ WantsErrorReply => mh_replies[1].status = "error"

\* C13: election-timeout draws: the election timeout a node uses lies in
\* [low, high), and a new value is drawn each time the timer fires (the
\* node begins an election) or is reset (the node grants a vote or takes a
\* valid heartbeat).
FreshDrawEachReset ==
    [][\A n \in Nodes :
          /\ TimeoutLow <= election_timeout_sec'[n]
          /\ election_timeout_sec'[n] < TimeoutHigh
          /\ (current_term'[n] = current_term[n] + 1 \/ lastReset'[n] # lastReset[n])
                 => timeout_draws'[n] = timeout_draws[n] + 1]_vars

\* the resource holds a lock record whose expiry time has not passed
Held(r) ==
    lm_locks[r] # NoLock
        /\ (lm_locks[r].expires_at = None \/ lm_locks[r].expires_at >= lm_time)

\* the step is a call of op on resource r
Called(op, r) ==
    lm_last'.flip # lm_last.flip /\ lm_last'.op = op /\ lm_last'.resource = r

\* C14: mutual exclusion: while a resource holds a lock record whose expiry
\* time has not passed, every acquire on it, by whatever owner, returns
\* False and leaves the record unchanged; the record goes away only by a
\* release of its owner.
LockMutualExclusion ==
    [][\A r \in Resources :
          Held(r) =>
              /\ Called("acquire", r) => (~lm_last'.ok /\ lm_locks'[r] = lm_locks[r])
              /\ lm_locks'[r] # lm_locks[r] =>
                     /\ Called("release", r)
                     /\ lm_last'.owner = lm_locks[r].owner
                     /\ lm_locks'[r] = NoLock]_vars

\* an acquire was refused at the very expiry time of the record of another
\* owner, which is still in the table
RefusedAtDeadline ==
    /\ lm_last.op = "acquire" /\ ~lm_last.ok
    /\ \E r \in Resources :
           /\ lm_last.resource = r
           /\ lm_locks[r] # NoLock
           /\ lm_locks[r].owner # lm_last.owner
           /\ lm_locks[r].expires_at = lm_time

StaleRequestDenied ==
    [][\A n \in Nodes : \A lost \in BOOLEAN :
          (/\ pc[n] = "vote"
           /\ current_term[n] < current_term[Head(todo[n])]
           /\ RequestVoteDelivered(n, lost)) =>
          LET p == Head(todo[n]) IN
              /\ ~VoteGranted(p, VoteRequest(n))
              /\ votes'[n] = votes[n]
              /\ current_term'[p] = current_term[p]
              /\ voted_for'[p] = voted_for[p]
              /\ state'[p] = state[p]
              /\ leader_id'[p] = leader_id[p]]_vars

\* a node at term 2 or above has handled the vote_request of a candidate of
\* a lower term, whose round goes on with its next peer
StaleRequestHandled ==
    /\ lastStale.to # None
    /\ current_term[lastStale.candidate_id] < current_term[lastStale.to]
    /\ current_term[lastStale.to] >= 2
    /\ pc[lastStale.candidate_id] = "vote"
    /\ votes[lastStale.candidate_id] = 1

\* the node has cast no vote in term T, or cast it for candidate c
FreeToVote(p, T, c) ==
    \A x \in voteLog[p] : x[1] = T => x[2] = c

\* C17: vote-grant rule: a vote_request of candidate C with a term T not
\* below the responder's is granted if and only if the responder's vote for
\* term T is none or is C; a grant sets voted_for to C and a denial leaves
\* voted_for unchanged.
VoteGrantRule ==
    [][\A n \in Nodes : \A lost \in BOOLEAN :
          (RequestVoteDelivered(n, lost)
              /\ current_term[n] >= current_term[Head(todo[n])]) =>
          LET p == Head(todo[n])
              m == VoteRequest(n)
          IN /\ VoteGranted(p, m) <=> FreeToVote(p, m.term, m.candidate_id)
             /\ VoteGranted(p, m) => voted_for'[p] = m.candidate_id
             /\ ~VoteGranted(p, m) => voted_for'[p] = voted_for[p]]_vars

\* the roles a heartbeat is taken in
HeartbeatTakers == {"follower", "candidate"}

\* C18: heartbeat acceptance: a follower or candidate that handles a
\* heartbeat of leader L with a term not below its own has afterwards
\* leader_id = L, role follower, the term of the heartbeat and, if its term
\* increased, voted_for none.
HeartbeatAccepted ==
    [][\A l \in Nodes : \A n \in Nodes \ {l} :
          (HeartbeatDelivered(l, n)
              /\ state[n] \in HeartbeatTakers
              /\ Heartbeat(l).term >= current_term[n]) =>
          /\ leader_id'[n] = l
          /\ state'[n] = "follower"
          /\ current_term'[n] = Heartbeat(l).term
          /\ (Heartbeat(l).term > current_term[n] => voted_for'[n] = None)]_vars

\* C19: role transitions of a leader: a leader stays leader at the same
\* term, or becomes follower with a strictly greater term; it never becomes
\* candidate and never increments its own term.
LeaderNeverCampaigns ==
    [][\A n \in Nodes :
          state[n] = "leader" =>
              \/ state'[n] = "leader" /\ current_term'[n] = current_term[n]
              \/ state'[n] = "follower" /\ current_term'[n] > current_term[n]]_vars

\* the vote requests of a round of node n that has asked its first k peers
RequestsOfRound(n, k) == [i \in 1..k |-> <<peers[n][i], current_term[n]>>]

\* C20: becoming candidate: a start of an election (the watchdog task of
\* the node leaves its sleep for a vote round, or for a heartbeat loop when
\* there is no peer to ask) increments the node's term by exactly 1, sets
\* voted_for to the node, counts exactly one self-vote, sets the role to
\* candidate and leader_id to none (a node without peers has its quorum
\* with that one vote and is leader at once), and the round that follows
\* calls _request_vote once for every known peer, in the new term.
BecomeCandidate ==
    [][/\ \A n \in Nodes :
            (pc[n] = "sleep" /\ (pc'[n] = "vote" \/ hb_tasks'[n] > hb_tasks[n])) =>
               /\ current_term'[n] = current_term[n] + 1
               /\ voted_for'[n] = n
               /\ votes'[n] = 1
               /\ asked'[n] = <<>>
               /\ IF peers[n] = <<>>
                  THEN state'[n] = "leader" /\ leader_id'[n] = n
                  ELSE /\ state'[n] = "candidate"
                       /\ leader_id'[n] = None
                       /\ pc'[n] = "vote"
                       /\ todo'[n] = peers[n]
       /\ \A n \in {m \in Nodes : asked'[m] # asked[m] \/ todo'[m] # todo[m]} :
            /\ (pc'[n] = "vote") =>
                   /\ asked'[n] \o [i \in 1..Len(todo'[n]) |->
                                       <<todo'[n][i], current_term'[n]>>]
                          = RequestsOfRound(n, Len(peers[n]))'
            /\ (pc'[n] = "sleep" /\ current_term'[n] > 0) =>
                   asked'[n] = RequestsOfRound(n, Len(peers[n]))']_vars

\* a node of a cluster of three is in the round of its second election: it
\* has asked its first peer and not yet the other
SecondRoundHalfAsked ==
    \E n \in Nodes :
        /\ Len(peers[n]) = 2
        /\ current_term[n] = 2 /\ state[n] = "candidate" /\ pc[n] = "vote"
        /\ votes[n] = 1
        /\ Len(asked[n]) = 1 /\ Len(todo[n]) = 1

\* C21: observeTerm on replies: a candidate for term T that receives the
\* reply of a peer whose term is strictly greater than T adopts that term,
\* resets voted_for to none and reverts to follower; it is not leader of
\* term T afterwards.
ReplyTermObserved ==
    [][\A n \in Nodes :
          (/\ pc[n] = "vote"
           /\ current_term[Head(todo[n])] > current_term[n]
           /\ RequestVoteDelivered(n, FALSE)) =>
          /\ current_term'[n] = current_term[Head(todo[n])]
          /\ voted_for'[n] = None
          /\ state'[n] = "follower"]_vars

\* C22: no retry within a term: a vote round that ends without quorum
\* leaves the node candidate at the same term; the term does not change
\* during a round; and a round starts in a term strictly greater than the
\* node's term before, in which the node has run no round yet.
NoRetryWithinTerm ==
    [][\A n \in Nodes :
          /\ (pc[n] = "vote" /\ pc'[n] = "sleep"
                  /\ votes'[n] < (cluster \div 2) + 1) =>
                 /\ state'[n] = "candidate"
                 /\ current_term'[n] = current_term[n]
          /\ (pc[n] = "vote" /\ pc'[n] = "vote") =>
                 current_term'[n] = current_term[n]
          /\ (pc[n] = "sleep" /\ pc'[n] = "vote") =>
                 /\ current_term'[n] > current_term[n]
                 /\ <<current_term'[n], n>> \notin voteLog[n]]_vars

\* a node is candidate after its second round, which ended without quorum
\* as its first did
SecondRoundLost ==
    \E n \in Nodes :
        /\ peers[n] # <<>>
        /\ pc[n] = "sleep" /\ state[n] = "candidate"
        /\ current_term[n] = 2 /\ votes[n] = 1
        /\ voteLog[n] = {<<1, n>>, <<2, n>>}

\* the reply that ends the step is a grant that reaches the candidate
GrantReaches(n) ==
    RequestVoteDelivered(n, FALSE) /\ VoteGranted(Head(todo[n]), VoteRequest(n))

AtMostOneHeartbeatLoop ==
    \A n \in Nodes : hb_tasks[n] <= 1

\* C27: at most one failure-detector monitor: start_monitor called while a
\* monitor task is running creates no second task, so at most one polling
\* loop is active for any interleaving of start_monitor and stop_monitor,
\* and start_monitor after stop_monitor starts a new loop.
AtMostOneMonitor ==
    [][/\ fd_loops' <= 1
       /\ (fd_loops' >= 1) = (fd_monitor' \in {"running", "cancelling"})
       /\ fd_loops' > fd_loops => (fd_loops = 0 /\ fd_monitor # "running")
       /\ (fd_stop.called /\ StartMonitor) =>
              (fd_monitor' = "running" /\ fd_loops' = 1)]_vars

\* stop_monitor was called on a running monitor and again after the task had
\* ended; start_monitor then started a new loop, the only one, and it polls
MonitorRestarted ==
    /\ fd_monitor = "running" /\ fd_loops = 1
    /\ {"running", "cancelled"} \subseteq fd_stop.from
    /\ ~fd_stop.called
    /\ fd_tick.done

\* the senders that handle_commit was called with for seq
CommitSenders(seq) == {pb_committed[seq][i] : i \in 1..Len(pb_committed[seq])}

\* C28: the PBFT commit quorum counts distinct senders: is_committed(seq) is
\* true only if commit messages for seq were handled from more than two
\* thirds of the peers, counted as distinct senders.
CommitQuorumDistinct ==
    \A seq \in PbftSeqs :
        IsCommitted(seq) =>
            3 * Cardinality(CommitSenders(seq)) > 2 * Cardinality(PbftPeers)

====
